---- MODULE Spec2Model ----
(***************************************************************************)
(* A model of src/gpu_monitor.py: the GPUMonitor object, its Tk event      *)
(* handlers (toggle_monitoring, refresh_gpu_data, the interval spinbox),   *)
(* the monitor_loop threads it starts, and the pure helpers the handlers   *)
(* call (parse_gpu_data, build_or_update_dashboard, _update_gpu_card).     *)
(*                                                                         *)
(* Texts are sequences of one-character strings, so that splitting,        *)
(* stripping and number parsing are computed the way the code computes     *)
(* them.  Python's None is the empty sequence <<>> and a present value v   *)
(* is <<v>>.  A float is kept as a whole number of hundredths (the inputs  *)
(* used here carry at most two decimals).                                  *)
(*                                                                         *)
(* Spec and SpecCycle run the whole object; SpecOrder runs manual cycles   *)
(* over texts whose ids come in any order; SpecParse and SpecCard run      *)
(* parse_gpu_data and the card helpers on their own arguments; SpecLive    *)
(* runs the scheduler under fair scheduling up to and past the closing of  *)
(* the window.                                                             *)
(*                                                                         *)
(* Left out: the three text panes (summary, detailed, raw) and the theme;  *)
(* the handlers write them but nothing reads them back.                    *)
(***************************************************************************)
EXTENDS Integers, Sequences, FiniteSets, TLC

VARIABLES is_monitoring, update_interval, gpu_data, gpu_cards, status_label,
          monitor_button, threads, pending, running, event, arg, result

vars == <<is_monitoring, update_interval, gpu_data, gpu_cards, status_label,
          monitor_button, threads, pending, running, event, arg, result>>

\* the fields of the object and the contexts that run its methods
object == <<is_monitoring, update_interval, gpu_data, gpu_cards, status_label,
            monitor_button, threads, pending, running, event>>

\* arg and result hold the argument and the value of a helper that is run on
\* its own (parse_gpu_data, _update_gpu_card); the handlers leave them alone
call == <<arg, result>>

(***************************************************************************)
(* Bounds of the model.                                                    *)
(***************************************************************************)
\* monitor_loop threads that can be alive at once
MaxThreads == 2
\* root.after callbacks that can be queued and not yet dispatched
MaxPending == 2
\* lines in the text one nvidia-smi query returns
MaxLines == 2
\* lines of a text in the runs that explore the order of the cards
MaxOrderLines == 3
\* lines of a text in the runs of parse_gpu_data on its own
MaxParseLines == 2
\* the largest memory figure, and how far past the temperature thresholds
\* (and around zero) the readings go, in the runs of the card helpers
MaxMem == 3
TempMargin == 2

None == <<>>
Some(v) == <<v>>

(***************************************************************************)
(* Strings as sequences of characters.                                     *)
(***************************************************************************)
Whitespace == {" ", "\n"}

DigitVal == ("0" :> 0) @@ ("1" :> 1) @@ ("2" :> 2) @@ ("3" :> 3) @@ ("4" :> 4)
            @@ ("5" :> 5) @@ ("6" :> 6) @@ ("7" :> 7) @@ ("8" :> 8) @@ ("9" :> 9)

IsDigits(s) == \A i \in 1..Len(s) : s[i] \in DOMAIN DigitVal

RECURSIVE DigitsValue(_)
DigitsValue(s) ==
    IF s = <<>> THEN 0
    ELSE 10 * DigitsValue(SubSeq(s, 1, Len(s) - 1)) + DigitVal[s[Len(s)]]

\* str.strip(): drop leading and trailing whitespace
RECURSIVE LStrip(_)
LStrip(s) == IF s # <<>> /\ Head(s) \in Whitespace THEN LStrip(Tail(s)) ELSE s

RECURSIVE RStrip(_)
RStrip(s) ==
    IF s # <<>> /\ s[Len(s)] \in Whitespace
    THEN RStrip(SubSeq(s, 1, Len(s) - 1)) ELSE s

Strip(s) == RStrip(LStrip(s))

\* str.split(sep) for a one-character separator: always at least one piece
RECURSIVE SplitFrom(_, _, _)
SplitFrom(s, sep, cur) ==
    IF s = <<>> THEN <<cur>>
    ELSE IF Head(s) = sep THEN <<cur>> \o SplitFrom(Tail(s), sep, <<>>)
    ELSE SplitFrom(Tail(s), sep, Append(cur, Head(s)))

Split(s, sep) == SplitFrom(s, sep, <<>>)

(***************************************************************************)
(* float(value), for the alphabet used here (digits, sign, point, letters  *)
(* that spell no float keyword): [sign] digits [. [digits]] or             *)
(* [sign] . digits.  The result is <<hundredths>>, or None when float()    *)
(* raises ValueError.                                                      *)
(***************************************************************************)
Hundredths(frac) ==
    LET two == SubSeq(frac \o <<"0", "0">>, 1, 2) IN DigitsValue(two)

py_float(value) ==
    LET signed == value # <<>> /\ Head(value) \in {"-", "+"}
        body   == IF signed THEN Tail(value) ELSE value
        pieces == Split(body, ".")
        whole  == pieces[1]
        frac   == IF Len(pieces) = 2 THEN pieces[2] ELSE <<>>
        ok     == /\ Len(pieces) <= 2
                  /\ IsDigits(whole) /\ IsDigits(frac)
                  /\ Len(whole) + Len(frac) > 0
        mag    == 100 * DigitsValue(whole) + Hundredths(frac)
    IN  IF ~ok THEN None
        ELSE IF signed /\ Head(value) = "-" THEN Some(0 - mag) ELSE Some(mag)

\* int(x) of a float: truncation toward zero
py_int_of_float(h) == IF h >= 0 THEN h \div 100 ELSE 0 - ((0 - h) \div 100)

\* int(x) of a string, as the sort key of build_or_update_dashboard uses
\* it: optional sign and digits only; None when int() raises ValueError
py_int(s) ==
    LET signed == s # <<>> /\ Head(s) \in {"-", "+"}
        body   == IF signed THEN Tail(s) ELSE s
    IN  IF body = <<>> \/ ~IsDigits(body) THEN None
        ELSE IF signed /\ Head(s) = "-" THEN Some(0 - DigitsValue(body))
        ELSE Some(DigitsValue(body))

(***************************************************************************)
(* parse_gpu_data                                                          *)
(***************************************************************************)
to_int(value) ==
    LET f == py_float(value) IN
    IF f = None THEN None ELSE Some(py_int_of_float(f[1]))

to_float(value) == py_float(value)

\* the record parse_gpu_data builds from the stripped parts of one line
gpu_record(parts) ==
    [name         |-> parts[2],
     temperature  |-> to_int(parts[3]),
     utilization  |-> to_int(parts[4]),
     memory_used  |-> to_int(parts[5]),
     memory_total |-> to_int(parts[6]),
     power_draw   |-> to_float(parts[7])]

\* A dict is a sequence of [id, info] entries in insertion order with
\* distinct ids; d[k] = v replaces the value of a key in place and appends
\* a new key.
Keys(d) == {d[i].id : i \in 1..Len(d)}

KeyList(d) == [i \in 1..Len(d) |-> d[i].id]

DictSet(d, k, v) ==
    IF k \in Keys(d)
    THEN [i \in 1..Len(d) |-> IF d[i].id = k THEN [id |-> k, info |-> v] ELSE d[i]]
    ELSE Append(d, [id |-> k, info |-> v])

DictGet(d, k) == d[CHOOSE i \in 1..Len(d) : d[i].id = k].info

StripParts(parts) == [i \in 1..Len(parts) |-> Strip(parts[i])]

\* a loop body that asks for more than seven parts
parse_line_over_seven(gpu_info, line) ==
    IF Strip(line) = <<>> THEN gpu_info
    ELSE LET parts == StripParts(Split(line, ",")) IN
         IF Len(parts) > 7
         THEN DictSet(gpu_info, parts[1], gpu_record(parts))
         ELSE gpu_info

\* the body of the loop over lines, for one line
parse_line(gpu_info, line) ==
    IF Strip(line) = <<>> THEN gpu_info
    ELSE LET parts == StripParts(Split(line, ",")) IN
         IF Len(parts) >= 7
         THEN DictSet(gpu_info, parts[1], gpu_record(parts))
         ELSE gpu_info

RECURSIVE parse_lines(_, _)
parse_lines(gpu_info, lines) ==
    IF lines = <<>> THEN gpu_info
    ELSE parse_lines(parse_line(gpu_info, Head(lines)), Tail(lines))

parse_gpu_data(data) ==
    IF data = <<>> THEN <<>>
    ELSE parse_lines(<<>>, Split(Strip(data), "\n"))

(***************************************************************************)
(* The dashboard: get_temp_style, _create_gpu_card, _update_gpu_card and   *)
(* build_or_update_dashboard.  A card is the record of what its widgets    *)
(* show: labels hold the values that are formatted into their text.        *)
(***************************************************************************)
TempHighMin == 80
TempWarnMin == 70
UtilBarMax == 100

Max(a, b) == IF a >= b THEN a ELSE b
Min(a, b) == IF a <= b THEN a ELSE b

\* bands that begin one degree late
get_temp_style_above(temperature_c) ==
    IF temperature_c = None THEN "Muted.TLabel"
    ELSE IF temperature_c[1] > TempHighMin THEN "TempHigh.TLabel"
    ELSE IF temperature_c[1] > TempWarnMin THEN "TempWarn.TLabel"
    ELSE "TempOk.TLabel"

get_temp_style(temperature_c) ==
    IF temperature_c = None THEN "Muted.TLabel"
    ELSE IF temperature_c[1] >= TempHighMin THEN "TempHigh.TLabel"
    ELSE IF temperature_c[1] >= TempWarnMin THEN "TempWarn.TLabel"
    ELSE "TempOk.TLabel"

\* the widgets of a new card, before the first update
create_gpu_card(gpu_id, info, row_index) ==
    [row         |-> row_index,
     title       |-> <<gpu_id, info.name>>,
     temp_label  |-> None,
     temp_style  |-> get_temp_style(info.temperature),
     util_bar    |-> 0,
     util_label  |-> 0,
     mem_bar     |-> 0,
     mem_label   |-> <<0, 0, 0>>,
     power_label |-> None]

\* the value the utilization bar is given
util_bar_value(util_val) == Max(0, Min(util_val, UtilBarMax))

\* the value the utilization label prints before "%"
util_label_value(util_val) == util_val

\* info.get(key) or 0
or_zero(value) == IF value = None THEN 0 ELSE value[1]

\* int((mem_used_i / mem_total_i) * 100) if mem_total_i else 0: the quotient
\* and the product are doubles and int() drops the fraction.  For mem_used_i
\* below 23 the double has the integer part of the exact 100 * used / total
\* (23 / 5 is the first pair where it falls short, giving 459).
mem_percent(mem_used_i, mem_total_i) ==
    IF mem_total_i = 0 THEN 0
    ELSE IF mem_used_i >= 0 THEN (100 * mem_used_i) \div mem_total_i
    ELSE 0 - ((100 * (0 - mem_used_i)) \div mem_total_i)

update_gpu_card(widgets, info) ==
    LET util_val    == IF info.utilization # None THEN info.utilization[1] ELSE 0
        mem_used_i  == or_zero(info.memory_used)
        mem_total_i == IF or_zero(info.memory_total) > 0
                       THEN or_zero(info.memory_total) ELSE 0
        mem_pct     == mem_percent(mem_used_i, mem_total_i)
    IN
    [widgets EXCEPT
        !.temp_label  = info.temperature,
        !.temp_style  = IF info.temperature # None
                        THEN get_temp_style(info.temperature)
                        ELSE "Muted.TLabel",
        !.util_bar    = util_bar_value(util_val),
        !.util_label  = util_label_value(util_val),
        !.mem_bar     = Max(0, Min(mem_pct, UtilBarMax)),
        !.mem_label   = <<mem_used_i, mem_total_i, mem_pct>>,
        !.power_label = info.power_draw]

\* the keys in the order the dict holds them, with no sorting
keys_as_inserted(keys) == keys

\* sorted(keys, key=int): a stable insertion sort on the integer keys
RECURSIVE InsertSorted(_, _)
InsertSorted(sorted, k) ==
    IF sorted = <<>> THEN <<k>>
    ELSE IF py_int(sorted[Len(sorted)])[1] <= py_int(k)[1] THEN Append(sorted, k)
    ELSE Append(InsertSorted(SubSeq(sorted, 1, Len(sorted) - 1), k),
                sorted[Len(sorted)])

RECURSIVE SortedByInt(_)
SortedByInt(keys) ==
    IF keys = <<>> THEN <<>>
    ELSE InsertSorted(SortedByInt(SubSeq(keys, 1, Len(keys) - 1)), keys[Len(keys)])

\* the loop that updates the card of every id of the sample that has one
update_cards(cards, data) ==
    [i \in 1..Len(cards) |->
        IF cards[i].id \in Keys(data)
        THEN [id |-> cards[i].id,
              info |-> update_gpu_card(cards[i].info, DictGet(data, cards[i].id))]
        ELSE cards[i]]

\* the decision of build_or_update_dashboard: have the ids changed?
ids_changed(current_ids, new_ids) == current_ids # new_ids

\* Result: the new gpu_cards, what was done ("REBUILD" when the dashboard
\* was cleared, "UPDATE" otherwise), how many cards were destroyed and
\* created, and whether the ValueError of int() left the method.
build_or_update_dashboard(cards, data) ==
    IF ids_changed(Keys(cards), Keys(data))
    THEN IF \E k \in Keys(data) : py_int(k) = None
         THEN [cards |-> <<>>, rec |-> "REBUILD", destroyed |-> Len(cards),
               created |-> 0, raised |-> TRUE]
         ELSE LET order == SortedByInt(KeyList(data))
                  built == [i \in 1..Len(order) |->
                               [id   |-> order[i],
                                info |-> create_gpu_card(order[i],
                                             DictGet(data, order[i]), i - 1)]]
              IN  [cards |-> update_cards(built, data), rec |-> "REBUILD",
                   destroyed |-> Len(cards), created |-> Len(order),
                   raised |-> FALSE]
    ELSE [cards |-> update_cards(cards, data), rec |-> "UPDATE",
          destroyed |-> 0, created |-> 0, raised |-> FALSE]

(***************************************************************************)
(* What the external tool can answer.                                      *)
(***************************************************************************)
\* how one subprocess.run call ends
RunOutcomes == {"ok", "nonzero", "timeout", "notfound"}

RECURSIVE Join(_, _)
Join(pieces, sep) ==
    IF pieces = <<>> THEN <<>>
    ELSE IF Len(pieces) = 1 THEN pieces[1]
    ELSE pieces[1] \o sep \o Join(Tail(pieces), sep)

\* "0, A, 75, 150, 1, 8, 9.5": utilization above 100
LineGpu0 ==
    Join(<< <<"0">>, <<"A">>, <<"7", "5">>, <<"1", "5", "0">>, <<"1">>, <<"8">>,
            <<"9", ".", "5">> >>, <<",", " ">>)
\* "0,A,85,42.9,2,8,0": the same device with other readings
LineGpu0b ==
    Join(<< <<"0">>, <<"A">>, <<"8", "5">>, <<"4", "2", ".", "9">>, <<"2">>, <<"8">>,
            <<"0">> >>, <<",">>)
\* "1,B,N/A,-5,2,0,N/A": negative utilization, unreadable sensors
LineGpu1 ==
    Join(<< <<"1">>, <<"B">>, <<"N", "/", "A">>, <<"-", "5">>, <<"2">>, <<"0">>,
            <<"N", "/", "A">> >>, <<",">>)
\* "x,A,60,7,1,8,9.5,extra": an id that is no integer, and an eighth field
LineGpuX ==
    Join(<< <<"x">>, <<"A">>, <<"6", "0">>, <<"7">>, <<"1">>, <<"8">>,
            <<"9", ".", "5">>, <<"e">> >>, <<",">>)
\* "2,C,60,10,1,8": six fields only
LineShort ==
    Join(<< <<"2">>, <<"C">>, <<"6", "0">>, <<"1", "0">>, <<"1">>, <<"8">> >>, <<",">>)

\* a line that holds nothing
LineBlank == <<>>

SampleLines == {LineGpu0, LineGpu0b, LineGpu1, LineGpuX, LineShort, LineBlank}

\* the stdout of a query: every line ends with a newline
Stdout(lines) == Join([i \in 1..Len(lines) |-> lines[i] \o <<"\n">>], <<>>)

Texts == {Stdout(ls) : ls \in UNION {[1..n -> SampleLines] : n \in 0..MaxLines}}

\* A text as refresh_gpu_data reads it: whether it is the empty string, and
\* the sample parse_gpu_data makes of it.
Reading(t) == [empty |-> (t = <<>>), sample |-> parse_gpu_data(t)]

Readings == {Reading(t) : t \in Texts}

\* the few texts the runs that explore the scheduler draw from
SchedulerReadings ==
    {Reading(<<>>), Reading(Stdout(<<LineGpu0>>)),
     Reading(Stdout(<<LineGpu1, LineGpu0b>>)), Reading(Stdout(<<LineGpuX>>))}

\* the line of a device whose index is gpu_id: "<gpu_id>,A,60,7,1,8,9.5"
OrderLine(gpu_id) ==
    Join(<< gpu_id, <<"A">>, <<"6", "0">>, <<"7">>, <<"1">>, <<"8">>,
            <<"9", ".", "5">> >>, <<",">>)

\* the indexes nvidia-smi prints for eleven devices, a few of them
OrderIds == {<<"0">>, <<"2">>, <<"9">>, <<"1", "0">>}

\* texts whose lines come in any order
OrderTexts ==
    {Stdout(ls) : ls \in UNION {[1..n -> {OrderLine(k) : k \in OrderIds}]
                                    : n \in 0..MaxOrderLines}}

OrderReadings == {Reading(t) : t \in OrderTexts}

\* "  ": spaces only
LineSpaces == <<" ", " ">>
\* ",,,,,,": seven fields, all empty
LineCommas == Join(<< <<>>, <<>>, <<>>, <<>>, <<>>, <<>>, <<>> >>, <<",">>)
\* "3,C,50,N/A,N/A,N/A,5": no utilization and no memory figures
LineNoUtil ==
    Join(<< <<"3">>, <<"C">>, <<"5", "0">>, <<"N", "/", "A">>, <<"N", "/", "A">>,
            <<"N", "/", "A">>, <<"5">> >>, <<",">>)
\* " 1,B,N/A,-5,2,0,N/A ": spaces around the line
LinePadded == <<" ">> \o LineGpu1 \o <<" ">>

ParseLines == {LineGpu0, LineGpu0b, LineGpuX, LineShort, LineBlank, LineSpaces,
               LineCommas, LineNoUtil, LinePadded}

\* texts for parse_gpu_data: lines ended by, or only separated by, newlines
ParseTexts ==
    UNION {{Stdout(ls), Join(ls, <<"\n">>)} :
              ls \in UNION {[1..n -> ParseLines] : n \in 0..MaxParseLines}}

\* the temperatures, memory figures and records the card helpers are run on
TempValues ==
    ((TempWarnMin - TempMargin)..(TempHighMin + TempMargin))
        \cup ((0 - TempMargin)..TempMargin)

Optional(values) == {None} \cup {Some(v) : v \in values}

CardInfos ==
    [name         : {<<"A">>},
     temperature  : Optional(TempValues),
     utilization  : {Some(7)},
     memory_used  : Optional(0..MaxMem),
     memory_total : Optional(0..MaxMem),
     power_draw   : {Some(950)}]

\* the one text the runs under fair scheduling draw from
LiveReadings == {Reading(Stdout(<<LineGpu0>>))}

(***************************************************************************)
(* The object's state.                                                     *)
(*   update_interval  the IntVar behind the spinbox                        *)
(*   gpu_data         the last sample, a dict id -> record                 *)
(*   gpu_cards        the cards of the dashboard, a dict id -> widgets     *)
(*   threads          where each monitor_loop thread stands                *)
(*   pending          root.after callbacks queued and not yet dispatched   *)
(*   running          per execution context, the refresh_gpu_data call in  *)
(*                    progress on it ("none", "periodic" or "manual")      *)
(*   event            the last handler that completed, with what it did    *)
(*                    (devices: the device lines of the text it acquired)  *)
(***************************************************************************)
\* the thread that owns the Tk widgets and runs the event loop
MainThread == 0
Threads == 1..MaxThreads
Contexts == {MainThread} \cup Threads

DefaultInterval == 5

\* what the user puts in the spinbox: its arrows stay within from_..to,
\* typing does not
SpinboxValues == {DefaultInterval, 0, 0 - 1}

NoEvent(op, ctx) ==
    [op |-> op, ctx |-> ctx, origin |-> "none", avail |-> TRUE, acquired |-> FALSE,
     devices |-> 0, rec |-> "NONE", destroyed |-> 0, created |-> 0,
     raised |-> FALSE, told |-> FALSE]

\* check_nvidia_smi: the result and the text it puts in the status label
check_nvidia_smi(outcome) ==
    IF outcome = "ok" THEN [ok |-> TRUE, status |-> "nvidia-smi available"]
    ELSE IF outcome = "nonzero"
    THEN [ok |-> FALSE, status |-> "nvidia-smi not available"]
    ELSE [ok |-> FALSE, status |-> "nvidia-smi not found"]

\* get_gpu_data: the stdout of the query, or None
get_gpu_data(outcome, stdout) == IF outcome = "ok" THEN Some(stdout) ELSE None

\* __init__
Constructed ==
    /\ is_monitoring = FALSE
    /\ update_interval = DefaultInterval
    /\ gpu_data = <<>>
    /\ gpu_cards = <<>>
    /\ \E o \in RunOutcomes : status_label = check_nvidia_smi(o).status
    /\ monitor_button = "Start Monitoring"
    /\ threads = [t \in Threads |-> "none"]
    /\ pending = 0
    /\ running = [c \in Contexts |-> "none"]
    /\ event = NoEvent("__init__", MainThread)

Init ==
    /\ Constructed
    /\ arg = None
    /\ result = None

(***************************************************************************)
(* refresh_gpu_data.  It begins when the event loop calls it (RefreshNow,  *)
(* DispatchAfter) and its body runs while the context is in it; the other  *)
(* handlers of the main thread wait for it to return.  messagebox.showerror*)
(* is taken to return before the event loop runs another handler.          *)
(***************************************************************************)
\* the status the method leaves when it reaches its last line, whether or
\* not get_gpu_data delivered
refresh_status(acquired) == "Last updated"

\* the sample the method keeps, given what get_gpu_data returned
refresh_sample(old, basic_data) ==
    IF basic_data # None /\ ~basic_data[1].empty THEN basic_data[1].sample ELSE old

\* the dashboard step of the method, taken whether or not get_gpu_data
\* delivered
refresh_dashboard(cards, data, acquired) == build_or_update_dashboard(cards, data)

\* the method from its first line to its return, run on context c
refresh_gpu_data(c, pre, run, stdout) ==
    LET chk == check_nvidia_smi(pre) IN
    IF ~chk.ok
    THEN /\ status_label' = chk.status
         /\ event' = [NoEvent("refresh_gpu_data", c) EXCEPT
                         !.origin = running[c], !.avail = FALSE, !.told = TRUE]
         /\ UNCHANGED <<gpu_data, gpu_cards>>
    ELSE LET basic_data == get_gpu_data(run, stdout)
             data == refresh_sample(gpu_data, basic_data)
             b    == refresh_dashboard(gpu_cards, data, basic_data # None)
         IN  /\ gpu_data' = data
             /\ gpu_cards' = b.cards
             /\ status_label' = IF b.raised THEN chk.status
                                ELSE refresh_status(basic_data # None)
             /\ event' = [NoEvent("refresh_gpu_data", c) EXCEPT
                             !.origin = running[c],
                             !.acquired = (basic_data # None),
                             !.devices = IF basic_data # None
                                         THEN Len(basic_data[1].sample) ELSE 0,
                             !.rec = b.rec, !.destroyed = b.destroyed,
                             !.created = b.created, !.raised = b.raised]

RefreshRun(c, readings) ==
    /\ running[c] # "none"
    /\ \/ \E pre \in RunOutcomes \ {"ok"} :
             refresh_gpu_data(c, pre, "ok", Reading(<<>>))
       \/ \E run \in RunOutcomes \ {"ok"} :
             refresh_gpu_data(c, "ok", run, Reading(<<>>))
       \/ \E r \in readings : refresh_gpu_data(c, "ok", "ok", r)
    /\ running' = [running EXCEPT ![c] = "none"]
    /\ UNCHANGED <<is_monitoring, update_interval, monitor_button, threads, pending>>
    /\ UNCHANGED call

\* a "Refresh Now" that also cuts the wait of the loop short
refresh_and_wake ==
    /\ running[MainThread] = "none"
    /\ running' = [running EXCEPT ![MainThread] = "manual"]
    /\ threads' = [t \in Threads |->
                      IF threads[t] = "sleeping" THEN "while" ELSE threads[t]]
    /\ UNCHANGED <<is_monitoring, update_interval, gpu_data, gpu_cards, status_label,
                   monitor_button, pending, event>>
    /\ UNCHANGED call

\* the "Refresh Now" button
RefreshNow ==
    /\ running[MainThread] = "none"
    /\ running' = [running EXCEPT ![MainThread] = "manual"]
    /\ UNCHANGED <<is_monitoring, update_interval, gpu_data, gpu_cards, status_label,
                   monitor_button, threads, pending, event>>
    /\ UNCHANGED call

\* the event loop runs a callback that root.after queued
DispatchAfter ==
    /\ running[MainThread] = "none"
    /\ pending > 0
    /\ pending' = pending - 1
    /\ running' = [running EXCEPT ![MainThread] = "periodic"]
    /\ UNCHANGED <<is_monitoring, update_interval, gpu_data, gpu_cards, status_label,
                   monitor_button, threads, event>>
    /\ UNCHANGED call

(***************************************************************************)
(* toggle_monitoring, start_monitoring, stop_monitoring, the spinbox.      *)
(***************************************************************************)
\* the slot of the next thread object
FreeSlot ==
    CHOOSE t \in Threads :
        threads[t] = "none" /\ \A u \in 1..(t - 1) : threads[u] # "none"

\* a start that goes ahead whatever the preflight check says
start_without_preflight(outcome) ==
    LET chk == check_nvidia_smi(outcome) IN
    /\ is_monitoring' = TRUE
    /\ monitor_button' = "Stop Monitoring"
    /\ status_label' = "Monitoring started..."
    /\ threads' = [threads EXCEPT ![FreeSlot] = "while"]
    /\ event' = [NoEvent("start_monitoring", MainThread) EXCEPT !.avail = chk.ok]

start_monitoring(outcome) ==
    LET chk == check_nvidia_smi(outcome) IN
    IF ~chk.ok
    THEN /\ status_label' = chk.status
         /\ event' = [NoEvent("start_monitoring", MainThread) EXCEPT
                         !.avail = FALSE, !.told = TRUE]
         /\ UNCHANGED <<is_monitoring, monitor_button, threads>>
    ELSE /\ is_monitoring' = TRUE
         /\ monitor_button' = "Stop Monitoring"
         /\ status_label' = "Monitoring started..."
         /\ threads' = [threads EXCEPT ![FreeSlot] = "while"]
         /\ event' = NoEvent("start_monitoring", MainThread)

stop_monitoring ==
    /\ is_monitoring' = FALSE
    /\ monitor_button' = "Start Monitoring"
    /\ status_label' = "Monitoring stopped"
    /\ event' = NoEvent("stop_monitoring", MainThread)
    /\ UNCHANGED threads

\* the Start/Stop button; room: a thread can still be created
Toggle(room) ==
    /\ running[MainThread] = "none"
    /\ IF is_monitoring THEN stop_monitoring
       ELSE /\ room
            /\ \E outcome \in RunOutcomes : start_monitoring(outcome)
    /\ UNCHANGED <<update_interval, gpu_data, gpu_cards, pending, running>>
    /\ UNCHANGED call

\* the user changes the content of the spinbox
SetInterval ==
    /\ running[MainThread] = "none"
    /\ \E v \in SpinboxValues \ {update_interval} : update_interval' = v
    /\ UNCHANGED <<is_monitoring, gpu_data, gpu_cards, status_label, monitor_button,
                   threads, pending, running, event>>
    /\ UNCHANGED call

(***************************************************************************)
(* monitor_loop, on thread t: the while test, the body of one iteration    *)
(* up to the start of the sleep, and the end of the sleep.                 *)
(***************************************************************************)
\* a loop that calls the method itself instead of handing it to the event loop
refresh_called_on_thread(t) ==
    /\ running' = [running EXCEPT ![t] = "periodic"]
    /\ UNCHANGED pending

\* root.after(0, self.refresh_gpu_data), called on thread t
root_after(t) ==
    /\ pending' = pending + 1
    /\ UNCHANGED running

\* the number of seconds the loop asks time.sleep for
sleep_seconds(interval) == interval

\* time.sleep(self.update_interval.get()): TRUE when the thread sleeps,
\* FALSE when sleep() raises ValueError, which ends the loop
sleep_accepts(interval) == sleep_seconds(interval) >= 0

\* a while test that goes into the body whatever is_monitoring says
loop_test_ignores_stop(t) ==
    /\ threads[t] = "while"
    /\ threads' = [threads EXCEPT ![t] = "body"]
    /\ UNCHANGED <<is_monitoring, update_interval, gpu_data, gpu_cards, status_label,
                   monitor_button, pending, running, event>>
    /\ UNCHANGED call

LoopTest(t) ==
    /\ threads[t] = "while"
    /\ threads' = [threads EXCEPT ![t] = IF is_monitoring THEN "body" ELSE "none"]
    /\ UNCHANGED <<is_monitoring, update_interval, gpu_data, gpu_cards, status_label,
                   monitor_button, pending, running, event>>
    /\ UNCHANGED call

\* room: the queue of callbacks can still grow
LoopBody(t, room) ==
    /\ threads[t] = "body"
    /\ room
    /\ root_after(t)
    /\ threads' = [threads EXCEPT ![t] =
                      IF sleep_accepts(update_interval) THEN "sleeping" ELSE "none"]
    /\ UNCHANGED <<is_monitoring, update_interval, gpu_data, gpu_cards, status_label,
                   monitor_button, event>>
    /\ UNCHANGED call

LoopWake(t) ==
    /\ threads[t] = "sleeping"
    /\ threads' = [threads EXCEPT ![t] = "while"]
    /\ UNCHANGED <<is_monitoring, update_interval, gpu_data, gpu_cards, status_label,
                   monitor_button, pending, running, event>>
    /\ UNCHANGED call

(***************************************************************************)
(* Spec: the scheduler at large (up to MaxThreads loop threads alive, up   *)
(* to MaxPending callbacks queued, any spinbox value) over a few texts.    *)
(***************************************************************************)
Next ==
    \/ Toggle(\E t \in Threads : threads[t] = "none")
    \/ SetInterval
    \/ RefreshNow
    \/ DispatchAfter
    \/ \E c \in Contexts : RefreshRun(c, SchedulerReadings)
    \/ \E t \in Threads : LoopTest(t)
    \/ \E t \in Threads : LoopBody(t, pending < MaxPending)
    \/ \E t \in Threads : LoopWake(t)

Spec == Init /\ [][Next]_vars

(***************************************************************************)
(* SpecCycle: the cycles at large (every text of up to MaxLines lines),    *)
(* with one loop thread and one queued callback at a time and the spinbox  *)
(* left alone.                                                             *)
(***************************************************************************)
NextCycle ==
    \/ Toggle(\A t \in Threads : threads[t] = "none")
    \/ RefreshNow
    \/ DispatchAfter
    \/ \E c \in Contexts : RefreshRun(c, Readings)
    \/ \E t \in Threads : LoopTest(t)
    \/ \E t \in Threads : LoopBody(t, pending = 0)
    \/ \E t \in Threads : LoopWake(t)

SpecCycle == Init /\ [][NextCycle]_vars

(***************************************************************************)
(* SpecOrder: manual cycles over texts of up to MaxOrderLines lines whose  *)
(* ids are integers in any order, with monitoring left off.                *)
(***************************************************************************)
NextOrder ==
    \/ RefreshNow
    \/ RefreshRun(MainThread, OrderReadings)

SpecOrder == Init /\ [][NextOrder]_vars

(***************************************************************************)
(* SpecParse: parse_gpu_data on its own, called once on a text of up to    *)
(* MaxParseLines lines.                                                    *)
(***************************************************************************)
InitParse ==
    /\ Constructed
    /\ arg \in {Some(t) : t \in ParseTexts}
    /\ result = None

CallParse ==
    /\ arg # None /\ result = None
    /\ result' = Some(parse_gpu_data(arg[1]))
    /\ UNCHANGED <<object, arg>>

NextParse == CallParse

SpecParse == InitParse /\ [][NextParse]_vars

(***************************************************************************)
(* SpecCard: the card helpers on their own, as the rebuild branch calls    *)
(* them for one record: _create_gpu_card, then _update_gpu_card.           *)
(***************************************************************************)
InitCard ==
    /\ Constructed
    /\ arg \in {Some(info) : info \in CardInfos}
    /\ result = None

CallCard ==
    /\ arg # None /\ result = None
    /\ result' = Some(update_gpu_card(create_gpu_card(<<"0">>, arg[1], 0), arg[1]))
    /\ UNCHANGED <<object, arg>>

NextCard == CallCard

SpecCard == InitCard /\ [][NextCard]_vars

(***************************************************************************)
(* SpecLive: the scheduler under fair scheduling, with the closing of the  *)
(* window.  running[MainThread] = "closed" says that root.destroy() has    *)
(* been called: mainloop returns, no handler runs any more, and main()     *)
(* returns, which ends the process and its daemon threads.                 *)
(***************************************************************************)
Closed == running[MainThread] = "closed"

\* WM_DELETE_WINDOW: app.stop_monitoring(), then root.destroy(), which
\* drops the callbacks still queued
on_closing ==
    /\ running[MainThread] = "none"
    /\ is_monitoring' = FALSE
    /\ monitor_button' = "Start Monitoring"
    /\ status_label' = "Monitoring stopped"
    /\ event' = NoEvent("on_closing", MainThread)
    /\ running' = [running EXCEPT ![MainThread] = "closed"]
    /\ pending' = 0
    /\ UNCHANGED <<update_interval, gpu_data, gpu_cards, threads>>
    /\ UNCHANGED call

\* root.after on the destroyed root raises; the except clause of the loop
\* prints and breaks
LoopRaise(t) ==
    /\ threads[t] = "body"
    /\ Closed
    /\ threads' = [threads EXCEPT ![t] = "none"]
    /\ UNCHANGED <<is_monitoring, update_interval, gpu_data, gpu_cards, status_label,
                   monitor_button, pending, running, event>>
    /\ UNCHANGED call

\* main() returns after mainloop: the interpreter exits and the daemon
\* threads (daemon=True) end with it
ProcessExit ==
    /\ Closed
    /\ \E t \in Threads : threads[t] # "none"
    /\ threads' = [t \in Threads |-> "none"]
    /\ UNCHANGED <<is_monitoring, update_interval, gpu_data, gpu_cards, status_label,
                   monitor_button, pending, running, event>>
    /\ UNCHANGED call

\* a step of the monitor_loop thread t
LoopStep(t) ==
    \/ LoopTest(t)
    \/ LoopBody(t, pending < MaxPending /\ ~Closed)
    \/ LoopRaise(t)
    \/ LoopWake(t)

NextLive ==
    \/ Toggle(\E t \in Threads : threads[t] = "none")
    \/ on_closing
    \/ RefreshNow
    \/ DispatchAfter
    \/ RefreshRun(MainThread, LiveReadings)
    \/ \E t \in Threads : LoopTest(t)
    \/ \E t \in Threads : LoopBody(t, pending < MaxPending /\ ~Closed)
    \/ \E t \in Threads : LoopRaise(t)
    \/ \E t \in Threads : LoopWake(t)
    \/ ProcessExit

\* Every started thread gets to run (the sleep ends).  The event loop gets
\* to the callbacks in its queue, however many button presses come in
\* between, and the handler it runs returns: the queue is bounded here, so
\* a loop that finds it full waits for the event loop to take a callback off.
Fairness ==
    /\ \A t \in Threads : WF_vars(LoopStep(t))
    /\ SF_vars(DispatchAfter)
    /\ WF_vars(RefreshRun(MainThread, LiveReadings))

SpecLive == Init /\ [][NextLive]_vars /\ Fairness

(***************************************************************************)
(* Properties.                                                             *)
(***************************************************************************)
\* a refresh_gpu_data call returns in this step
CycleEnds == \E c \in Contexts : running[c] # "none" /\ running'[c] = "none"

\* the card shows the readings of the record
CardShows(card, info) ==
    /\ card.temp_label = info.temperature
    /\ card.util_label = (IF info.utilization = None THEN 0 ELSE info.utilization[1])
    /\ card.power_label = info.power_draw

FailureStatuses == {"nvidia-smi not available", "nvidia-smi not found", "Last update failed"}

\* C1: a cycle that reaches the dashboard step with sample S and known ids P
\* rebuilds (destroys every old card and creates one card per id of S) if
\* and only if keys(S) # P; when keys(S) = P it destroys and creates nothing
\* and every card of P shows the record S has for its id.
C1_RebuildIffIdsChanged ==
    [][(CycleEnds /\ event'.avail) =>
        LET P == Keys(gpu_cards)
            S == gpu_data'
            rebuilt == /\ event'.rec = "REBUILD"
                       /\ event'.destroyed = Len(gpu_cards)
                       /\ event'.created = Len(S)
                       /\ Keys(gpu_cards') = Keys(S)
        IN  /\ rebuilt <=> (Keys(S) # P)
            /\ Keys(S) = P =>
                  /\ event'.rec = "UPDATE"
                  /\ event'.destroyed = 0 /\ event'.created = 0
                  /\ KeyList(gpu_cards') = KeyList(gpu_cards)
                  /\ \A i \in 1..Len(gpu_cards') :
                        CardShows(gpu_cards'[i].info, DictGet(S, gpu_cards'[i].id))
    ]_vars

\* C2: whenever no cycle is in the middle of its body, the ids of the cards
\* are the ids of the last sample.
C2_CardsMatchSample == Keys(gpu_cards) = Keys(gpu_data)

\* C3: a cycle whose Summary acquisition did not deliver (the preflight or
\* the query failed) leaves gpu_data and gpu_cards as they were and raises
\* nothing.
C3_FailedCycleChangesNothing ==
    [][(CycleEnds /\ ~event'.acquired) =>
        /\ gpu_data' = gpu_data
        /\ gpu_cards' = gpu_cards
        /\ ~event'.raised
    ]_vars

\* C4: after a cycle whose Summary acquisition failed, no reconciliation was
\* done and the status label shows a failure, not "Last updated".
C4_FailedCycleShowsFailure ==
    (event.op = "refresh_gpu_data" /\ ~event.acquired) =>
        /\ event.rec = "NONE"
        /\ status_label \in FailureStatuses

\* C5: every periodic cycle that begins to execute begins while
\* is_monitoring is true.
C5_NoCycleBeginsAfterStop ==
    [][(running[MainThread] = "none" /\ running'[MainThread] = "periodic")
           => is_monitoring
    ]_vars

\* C6: whenever the loop leaves the body of an iteration it goes to sleep
\* (it does not exit), and for at least 1 second.
C6_WaitIsAtLeastOneSecond ==
    [][\A t \in Threads :
          (threads[t] = "body" /\ threads'[t] # "body") =>
              /\ threads'[t] = "sleeping"
              /\ sleep_seconds(update_interval) >= 1
    ]_vars

C8_CyclesRunOnMainThread ==
    [][/\ \A t \in Threads : running'[t] = "none"
       /\ event'.ctx = MainThread
       /\ (gpu_data' # gpu_data \/ gpu_cards' # gpu_cards
             \/ status_label' # status_label)
            => (running[MainThread] # "none" \/ event'.op # "refresh_gpu_data")
       /\ (running[MainThread] = "none" /\ running'[MainThread] = "periodic")
            => pending' = pending - 1
    ]_vars

\* a cycle queued by a loop thread has completed on the main thread and
\* built cards
C8_Witness ==
    /\ event.op = "refresh_gpu_data"
    /\ event.origin = "periodic"
    /\ event.ctx = MainThread
    /\ event.created > 0

\* C9: every utilization in the sample, and every utilization value a card
\* shows (bar and label), lies in 0..100.
C9_UtilizationInRange ==
    /\ \A i \in 1..Len(gpu_data) :
          gpu_data[i].info.utilization # None
              => gpu_data[i].info.utilization[1] \in 0..UtilBarMax
    /\ \A i \in 1..Len(gpu_cards) :
          /\ gpu_cards[i].info.util_bar \in 0..UtilBarMax
          /\ gpu_cards[i].info.util_label \in 0..UtilBarMax

\* a thread is created in this step
ThreadStarts == \E t \in Threads : threads[t] = "none" /\ threads'[t] # "none"

\* C10: is_monitoring is false at creation and changes only in
\* start_monitoring and stop_monitoring; it becomes true exactly when a start
\* whose preflight succeeded creates a loop thread; a start whose preflight
\* fails changes neither is_monitoring nor the threads and tells the caller.
C10_StartOnlyWhenAvailable ==
    /\ ~is_monitoring
    /\ [][/\ is_monitoring' # is_monitoring
              => event'.op \in {"start_monitoring", "stop_monitoring"}
          /\ (~is_monitoring /\ is_monitoring')
              => (event'.op = "start_monitoring" /\ event'.avail /\ ThreadStarts)
          /\ ThreadStarts => (~is_monitoring /\ is_monitoring')
          /\ (event' # event /\ event'.op = "start_monitoring" /\ ~event'.avail)
              => /\ ~is_monitoring /\ ~is_monitoring'
                 /\ threads' = threads
                 /\ event'.told
                 /\ status_label' \in FailureStatuses
       ]_vars

\* a start was refused: the tool is reported unavailable and nothing runs
C10_Witness ==
    /\ event.op = "start_monitoring"
    /\ ~event.avail /\ event.told
    /\ ~is_monitoring
    /\ \A t \in Threads : threads[t] = "none"

\* the ids, as integers, grow along the list
AscendingIds(ids) ==
    \A i \in 1..(Len(ids) - 1) : py_int(ids[i])[1] < py_int(ids[i + 1])[1]

\* C11: every rebuild leaves the cards in ascending order of the integer
\* value of their ids, card number i on grid row i - 1, whatever the order of
\* the ids in the text, and each rebuild orders anew.
C11_RebuildOrdersByNumber ==
    [][(CycleEnds /\ event'.rec = "REBUILD") =>
        /\ AscendingIds(KeyList(gpu_cards'))
        /\ \A i \in 1..Len(gpu_cards') : gpu_cards'[i].info.row = i - 1
        /\ ~event'.raised => Keys(gpu_cards') = Keys(gpu_data')
    ]_vars

\* a rebuild that replaced older cards was fed "10", "2", "9" in that order
\* and made the cards "2", "9", "10"
C11_Witness ==
    /\ event.rec = "REBUILD"
    /\ event.destroyed > 0
    /\ KeyList(gpu_data) = << <<"1", "0">>, <<"2">>, <<"9">> >>
    /\ KeyList(gpu_cards) = << <<"2">>, <<"9">>, <<"1", "0">> >>

\* the main thread enters or leaves a cycle asked for with "Refresh Now"
ManualStep ==
    \/ running[MainThread] = "none" /\ running'[MainThread] = "manual"
    \/ running[MainThread] = "manual" /\ running'[MainThread] = "none"

\* C12: "Refresh Now" is taken whenever the main thread is idle, monitoring
\* or not; the cycle it starts is one call of refresh_gpu_data, which queues
\* no further cycle; and neither its start nor its end changes
\* is_monitoring, the interval, or where any loop thread stands (a sleeping
\* loop goes on sleeping).
C12_ManualRefreshLeavesSchedule ==
    /\ [](running[MainThread] = "none" => ENABLED RefreshNow)
    /\ [][ManualStep =>
            /\ is_monitoring' = is_monitoring
            /\ update_interval' = update_interval
            /\ threads' = threads
            /\ pending' = pending
            /\ monitor_button' = monitor_button
            /\ running'[MainThread] = "none" =>
                  /\ event'.op = "refresh_gpu_data"
                  /\ event'.origin = "manual"
                  /\ event'.ctx = MainThread
       ]_vars

\* a manual cycle has completed while monitoring was on, a loop thread was
\* asleep and a periodic cycle was waiting in the queue
C12_Witness ==
    /\ event.op = "refresh_gpu_data"
    /\ event.origin = "manual"
    /\ running[MainThread] = "none"
    /\ is_monitoring
    /\ pending > 0
    /\ \E t \in Threads : threads[t] = "sleeping"

\* the comma-separated fields of a line: one more than its commas
FieldCount(line) == 1 + Cardinality({i \in 1..Len(line) : line[i] = ","})

\* the first seven fields of a line, each without the blanks around it
SevenFields(line) == SubSeq(StripParts(Split(line, ",")), 1, 7)

\* C13: parse_gpu_data returns a sample for every text; the ids of the
\* sample are exactly the first fields of the lines of the text that have 7
\* or more fields (lines with fewer give nothing), and the record of an id
\* is made of the first 7 fields of the last such line that carries it.
C13_ParseByFieldCount ==
    result # None =>
        LET lines  == Split(arg[1], "\n")
            full   == {i \in 1..Len(lines) : FieldCount(lines[i]) >= 7}
            sample == result[1]
            last(k) == CHOOSE i \in full :
                          /\ SevenFields(lines[i])[1] = k
                          /\ \A j \in full : SevenFields(lines[j])[1] = k => j <= i
        IN  /\ Keys(sample) = {SevenFields(lines[i])[1] : i \in full}
            /\ Cardinality(Keys(sample)) = Len(sample)
            /\ \A n \in 1..Len(sample) :
                  sample[n].info = gpu_record(SevenFields(lines[last(sample[n].id)]))

\* a text of a six-field line and an eight-field line was parsed: only the
\* second gave a record
C13_Witness ==
    /\ arg = Some(Stdout(<<LineShort, LineGpuX>>))
    /\ result # None
    /\ Keys(result[1]) = {<<"x">>}

\* C14: a cycle whose acquisition delivered a text with no device line in
\* it (an empty text, blank lines, lines of fewer than 7 fields) ends with
\* an empty sample and no cards.
C14_NoDeviceLineEmptiesSample ==
    [][(CycleEnds /\ event'.acquired /\ event'.devices = 0) =>
        /\ gpu_data' = <<>>
        /\ gpu_cards' = <<>>
    ]_vars

\* n / d rounded to the nearest integer, for n >= 0 and d > 0
Rounded(n, d) == (2 * n + d) \div (2 * d)

\* C15: the percentage the memory label of a card shows is used / total
\* * 100 rounded to the nearest integer when total > 0, and 0 when total is
\* 0 or absent.
C15_MemoryPercentIsRounded ==
    result # None =>
        LET info == arg[1]
            pct  == result[1].mem_label[3]
        IN  IF info.memory_total # None /\ info.memory_total[1] > 0
            THEN info.memory_used # None =>
                    pct = Rounded(100 * info.memory_used[1], info.memory_total[1])
            ELSE pct = 0

\* C16: the style of the temperature label is Muted when the record has no
\* temperature, TempOk below 70, TempWarn from 70 through 79 and TempHigh
\* from 80 up, and the style the new card is created with is the same.
C16_TemperatureBands ==
    result # None =>
        LET t     == arg[1].temperature
            style == result[1].temp_style
        IN  /\ t = None => style = "Muted.TLabel"
            /\ (t # None /\ t[1] < 70) => style = "TempOk.TLabel"
            /\ (t # None /\ t[1] >= 70 /\ t[1] <= 79) => style = "TempWarn.TLabel"
            /\ (t # None /\ t[1] >= 80) => style = "TempHigh.TLabel"
            /\ style = create_gpu_card(<<"0">>, arg[1], 0).temp_style

\* a card was made for a record at 79 degrees and shows the warning style
C16_Witness ==
    /\ arg # None /\ result # None
    /\ arg[1].temperature = Some(79)
    /\ result[1].temp_style = "TempWarn.TLabel"

\* the field is not the text of a number
Unparsable(field) == py_float(field) = None

\* C17: in every record of a parsed sample, a temperature field that is not
\* a number gives an absent temperature; utilization, memory_used and
\* memory_total are never absent, and are 0 when their field is not a
\* number; a power field that is not a number gives an absent power draw.
C17_UnparsableFieldDefaults ==
    result # None =>
        LET lines == Split(arg[1], "\n") IN
        \A n \in 1..Len(result[1]) :
            LET info  == result[1][n].info
                i     == CHOOSE i \in 1..Len(lines) :
                            /\ FieldCount(lines[i]) >= 7
                            /\ SevenFields(lines[i])[1] = result[1][n].id
                            /\ gpu_record(SevenFields(lines[i])) = info
                parts == SevenFields(lines[i])
            IN  /\ Unparsable(parts[3]) => info.temperature = None
                /\ info.utilization # None
                /\ info.memory_used # None
                /\ info.memory_total # None
                /\ Unparsable(parts[4]) => info.utilization = Some(0)
                /\ Unparsable(parts[5]) => info.memory_used = Some(0)
                /\ Unparsable(parts[6]) => info.memory_total = Some(0)
                /\ Unparsable(parts[7]) => info.power_draw = None

\* the monitor_loop threads that have been started and have not returned
Alive == {t \in Threads : threads[t] # "none"}

\* C18: at most one monitor_loop thread is alive at any time.
C18_AtMostOneLoopThread == Cardinality(Alive) <= 1

\* C19: whenever is_monitoring is true a monitor_loop thread is alive, and
\* no loop thread returns while is_monitoring is true.
C19_LoopAliveWhileMonitoring ==
    /\ [](is_monitoring => Alive # {})
    /\ [][\A t \in Threads :
             (threads[t] # "none" /\ threads'[t] = "none") => ~is_monitoring
       ]_vars

\* C20: the periodic cycles that are queued or executing on the main thread
\* are never more than one.
C20_OnePeriodicCycleOutstanding ==
    pending + (IF running[MainThread] = "periodic" THEN 1 ELSE 0) <= 1

\* C21: once is_monitoring is false (stop_monitoring, or the closing of
\* the window), every loop thread that is alive returns unless monitoring
\* is started again; and once no loop thread is alive and is_monitoring is
\* false, no periodic cycle is queued.
C21_LoopEndsAfterStop ==
    /\ \A t \in Threads :
          (~is_monitoring /\ threads[t] # "none")
              ~> (is_monitoring \/ threads[t] = "none")
    /\ [][(~is_monitoring /\ Alive = {}) => pending' <= pending]_vars

\* the last handler was a stop that found a loop asleep or at work, the
\* loop has returned since, and the callbacks it queued are still there
C21_Witness ==
    /\ event.op = "stop_monitoring"
    /\ ~is_monitoring
    /\ Alive = {}
    /\ pending > 0
    /\ update_interval = DefaultInterval

====
